---- MODULE Spec2Model ----
(***************************************************************************)
(* Model of the per-process supervisor of http-process-wrapper             *)
(* (src/app/service.py, class ProcessWrapper): the bounded log buffer,     *)
(* _append_log_line with its fan-out to subscriber streams, tail,          *)
(* tail_stream and unsubscribe_tail_stream, run by cooperatively           *)
(* scheduled tasks (asyncio): a step of the model is the code a task runs  *)
(* between two suspension points.                                          *)
(*                                                                         *)
(* Text is a sequence of one-character strings.  A LogLine is a record     *)
(* [kind, timestamp, text]; datetime.now() is a logical clock `now` that   *)
(* ticks once per LogLine created, so a timestamp also identifies the      *)
(* LogLine object.                                                         *)
(***************************************************************************)
EXTENDS Integers, Sequences, FiniteSets, TLC

VARIABLES
    log_buffer,          \* ProcessWrapper._log_buffer (deque of LogLine)
    log_maxlen,          \* maxlen of that deque
    now,                 \* logical clock read by datetime.now(timezone.utc)
    lock,                \* ProcessWrapper._lock: "free" or the task holding it
    subscriber_streams,  \* keys of ProcessWrapper._subscriber_streams
    chan,                \* state of each memory object stream (send + receive end)
    sub_pc,              \* position of the tail_stream caller and consumer
    sub_replay,          \* queued_lines not yet sent by tail_stream
    evict,               \* unsubscribe_tail_stream calls, counted by position, and
                         \* the exception one of them ended with
    enq,                 \* history: timestamps that entered each stream, in order
    dropped,             \* history: timestamps refused with WouldBlock per stream
    snap,                \* history: clock and replay timestamps at each subscription
    last_op,             \* history: the last call, its arguments and its result
    processes_registry,  \* service.processes_registry: what each name refers to
    proc,                \* ProcessWrapper._proc: 0 for None, else the child
    child,               \* each child process: its state and its unread output
    worker,              \* the drain task of each stream of each child
    tasks,               \* ProcessWrapper._tasks
    req,                 \* the requests being handled, each at its suspension point
    n_req,               \* requests received so far
    stream,              \* the fields of an InMemoryStream, its lock and condition
    producer,            \* the tasks calling append and close, each at its suspension point
    consumer,            \* the tasks iterating subscribe(), each at its suspension point
    assigned             \* history: the seq numbers append assigned, in order

\* The state of the registry, the child processes and the request handlers.
lifevars == <<processes_registry, proc, child, worker, tasks, req, n_req>>

\* The state of the InMemoryStream of stream.py and of its tasks.
streamvars == <<stream, producer, consumer, assigned>>

vars == <<log_buffer, log_maxlen, now, lock,
          subscriber_streams, chan, sub_pc, sub_replay, evict, enq,
          dropped, snap, last_op,
          processes_registry, proc, child, worker, tasks, req, n_req,
          stream, producer, consumer, assigned>>

(***************************************************************************)
(* Bounds of the model.                                                    *)
(***************************************************************************)
\* Capacity of the log buffer and of the subscriber queues in the interleaving
\* specification (the code uses 1000 for both, see LogBufferMaxlen).
Cap == 2
\* LogLine objects created in one behaviour of the interleaving specification.
MaxNow == 3
\* LogLine objects created in one behaviour of the append specification.
MaxAppendNow == 3
\* LogLine objects created in one behaviour of the tail specification.
MaxTailNow == 4
\* Largest n passed to tail.
MaxN == 3
\* Appends of the capacity specification beyond the capacity of the buffer.
MaxOverflow == 2

\* Children spawned in one behaviour of the lifecycle specifications.
MaxChildren == 2
\* LogLine objects created in one behaviour of the lifecycle specifications.
MaxLifeNow == 2
\* Requests received in one behaviour of the lifecycle specifications.
MaxRequests == 3
\* maxlen of the InMemoryStream (the default of the code is 1000).
StreamMaxlen == 1
\* Calls of InMemoryStream.append in one behaviour.
MaxAppends == 2

\* deque(maxlen=1000) of model_post_init.
LogBufferMaxlen == 1000

Kinds == {"stdout", "stderr"}
\* Chunks of decoded output: empty, an unterminated line, a line, a bare
\* newline, two lines, a line and the start of the next, a CR LF line, and a
\* carriage return inside the chunk.
Texts == {<<>>, <<"a">>, <<"a", "\n">>, <<"\n">>, <<"a", "\n", "a", "\n">>,
          <<"a", "\n", "a">>, <<"a", "\r", "\n">>, <<"a", "\r", "a">>}
\* The tail_stream subscriptions of one behaviour: one that can be slow and
\* another one.
Subs == {1, 2}
Workers == Kinds
\* The name of the supervisor the requests are about.
Names == {"p"}
Children == 1..MaxChildren
\* Requests being handled at the same time.
Slots == {1, 2}
\* The tasks that use the InMemoryStream: two that call append and close,
\* and two that iterate a subscription.
Producers == {"p1", "p2"}
Consumers == {"c1", "c2"}

Min(a, b) == IF a < b THEN a ELSE b

Newest(buf) == buf[Len(buf)]

\* The placeholder None of `[None] * n` in tail.
NoneLine == [kind |-> "None", timestamp |-> 0, text |-> <<>>]

LogLine(kind, timestamp, text) == [kind |-> kind, timestamp |-> timestamp, text |-> text]

(***************************************************************************)
(* str.splitlines(keepends=True): break at every line boundary, keeping    *)
(* the boundary with the piece before it.  Of Python's line boundaries the *)
(* alphabet has "\n", "\r" and the pair "\r\n" (one boundary).             *)
(***************************************************************************)
LineBreaks == {"\n", "\r"}

FirstLineEnd(t) ==
    LET B == {i \in 1..Len(t) : t[i] \in LineBreaks}
    IN  IF B = {} THEN Len(t)
        ELSE LET i == CHOOSE j \in B : \A k \in B : j <= k
             IN  IF t[i] = "\r" /\ i < Len(t) /\ t[i + 1] = "\n" THEN i + 1 ELSE i

\* str.splitlines() without keepends: the line boundaries are dropped.
StripLineEnd(p) ==
    IF Len(p) >= 2 /\ p[Len(p) - 1] = "\r" /\ p[Len(p)] = "\n" THEN SubSeq(p, 1, Len(p) - 2)
    ELSE IF p # <<>> /\ p[Len(p)] \in LineBreaks THEN SubSeq(p, 1, Len(p) - 1)
    ELSE p

RECURSIVE SplitLinesDropEnds(_)
SplitLinesDropEnds(t) ==
    IF t = <<>> THEN <<>>
    ELSE LET e == FirstLineEnd(t)
         IN  <<StripLineEnd(SubSeq(t, 1, e))>> \o SplitLinesDropEnds(SubSeq(t, e + 1, Len(t)))

RECURSIVE SplitLines(_)
SplitLines(t) ==
    IF t = <<>> THEN <<>>
    ELSE LET e == FirstLineEnd(t)
         IN  <<SubSeq(t, 1, e)>> \o SplitLines(SubSeq(t, e + 1, Len(t)))

(***************************************************************************)
(* deque.append on a deque with a maxlen: the oldest item is discarded     *)
(* when the deque is full.                                                 *)
(***************************************************************************)
\* An append that never discards.
DequeAppendNoEvict(d, x, maxlen) == Append(d, x)

DequeAppend(d, x, maxlen) ==
    IF Len(d) >= maxlen THEN Append(Tail(d), x) ELSE Append(d, x)

(***************************************************************************)
(* ProcessWrapper.tail, the code between acquiring and releasing the lock. *)
(* The result is [raised, value]: the exception that ends the call, or     *)
(* "none" and the list returned.  Python list indexing accepts             *)
(* -len <= index < len and raises IndexError otherwise.                    *)
(***************************************************************************)
PyIndexOk(l, idx) == -Len(l) <= idx /\ idx < Len(l)

PySetItem(l, idx, v) == [l EXCEPT ![IF idx >= 0 THEN idx + 1 ELSE Len(l) + idx + 1] = v]

\* The loop `for line in reversed(self._log_buffer)`, at buffer position i
\* with the current values of output and n.
RECURSIVE TailLoop(_, _, _, _, _)
TailLoop(buf, i, output, n, include_stderr) ==
    IF i = 0 THEN [raised |-> "none", value |-> output]
    ELSE IF ~include_stderr /\ buf[i].kind = "stderr"
         THEN TailLoop(buf, i - 1, output, n, include_stderr)
    ELSE IF ~PyIndexOk(output, n - 1)
         THEN [raised |-> "IndexError", value |-> <<>>]
    ELSE IF n - 1 = 0
         THEN [raised |-> "none", value |-> PySetItem(output, n - 1, buf[i])]
    ELSE TailLoop(buf, i - 1, PySetItem(output, n - 1, buf[i]), n - 1, include_stderr)

tail(buf, n, include_stderr) ==
    LET m == Min(n, Len(buf))
    IN  TailLoop(buf, Len(buf), [i \in 1..m |-> NoneLine], m, include_stderr)

(***************************************************************************)
(* Memory object streams (anyio).  One record holds the state shared by    *)
(* the send and the receive end created by create_memory_object_stream.    *)
(* The items of a stream are references to LogLine objects: the model      *)
(* keeps the timestamp of the LogLine, which identifies it.                *)
(***************************************************************************)
\* max_buffer_size=1000 of tail_stream, scaled like the log buffer.
MaxBufferSize == Cap

NewStream(max_buffer_size) ==
    [buffer |-> <<>>, max_buffer_size |-> max_buffer_size,
     send_closed |-> FALSE, recv_closed |-> FALSE,
     waiting_sender |-> <<>>, receiver |-> "none"]

\* MemoryObjectSendStream.send_nowait: [ch, raised].  An item goes straight
\* to a receiver waiting in receive(), which then is no longer waiting, else
\* into the buffer if it has room.
send_nowait(ch, item) ==
    IF ch.send_closed
    THEN [ch |-> ch, raised |-> "ClosedResourceError"]
    ELSE IF ch.recv_closed
    THEN [ch |-> ch, raised |-> "BrokenResourceError"]
    ELSE IF ch.receiver = "waiting"
    THEN [ch |-> [ch EXCEPT !.receiver = "none"], raised |-> "none"]
    ELSE IF Len(ch.buffer) < ch.max_buffer_size
    THEN [ch |-> [ch EXCEPT !.buffer = Append(@, item)], raised |-> "none"]
    ELSE [ch |-> ch, raised |-> "WouldBlock"]

(***************************************************************************)
(* _append_log_line.  The state it touches is threaded through as a record *)
(* st = [buf, now, chan, evict, enq, dropped].                             *)
(***************************************************************************)
\* One pass of `try: send_stream.send_nowait(line) except Exception: ...`
\* for the subscriber s.
SendToSubscriber(st, s, line) ==
    LET r == send_nowait(st.chan[s], line.timestamp)
    IN  IF r.raised = "none"
        THEN [st EXCEPT !.chan[s] = r.ch,
                        !.enq[s] = Append(@, line.timestamp)]
        ELSE [st EXCEPT !.evict[s].created = @ + 1,
                        !.dropped[s] = IF r.raised = "WouldBlock"
                                       THEN @ \cup {line.timestamp} ELSE @]

\* A broadcast that gives up at the first subscriber whose send fails.
RECURSIVE BroadcastAbortOnError(_, _, _, _)
BroadcastAbortOnError(st, keys, i, line) ==
    IF i > Len(keys) THEN st
    ELSE IF send_nowait(st.chan[keys[i]], line.timestamp).raised # "none"
         THEN SendToSubscriber(st, keys[i], line)
    ELSE BroadcastAbortOnError(SendToSubscriber(st, keys[i], line), keys, i + 1, line)

\* `for receive_stream, send_stream in self._subscriber_streams.items()`,
\* from the i-th key on.
RECURSIVE Broadcast(_, _, _, _)
Broadcast(st, keys, i, line) ==
    IF i > Len(keys) THEN st
    ELSE Broadcast(SendToSubscriber(st, keys[i], line), keys, i + 1, line)

\* The body of the loop with the merge rule: a part that continues a newest
\* LogLine of the same kind without a trailing newline is added to it.
AppendPartMerging(st, keys, maxlen, kind, part) ==
    LET n == Len(st.buf)
    IN  IF n > 0 /\ st.buf[n].kind = kind /\ st.buf[n].text # <<>>
           /\ st.buf[n].text[Len(st.buf[n].text)] # "\n"
        THEN [st EXCEPT !.buf[n] = LogLine(kind, st.now + 1, @.text \o part),
                        !.now = @ + 1]
        ELSE LET line == LogLine(kind, st.now + 1, part)
             IN  Broadcast([st EXCEPT !.buf = DequeAppend(@, line, maxlen),
                                      !.now = @ + 1],
                           keys, 1, line)

\* The body of `for part in text.splitlines(keepends=True)` for one part.
AppendPart(st, keys, maxlen, kind, part) ==
    LET line == LogLine(kind, st.now + 1, part)
    IN  Broadcast([st EXCEPT !.buf = DequeAppend(@, line, maxlen),
                             !.now = @ + 1],
                  keys, 1, line)

RECURSIVE AppendParts(_, _, _, _, _, _)
AppendParts(st, keys, maxlen, kind, parts, i) ==
    IF i > Len(parts) THEN st
    ELSE AppendParts(AppendPart(st, keys, maxlen, kind, parts[i]),
                     keys, maxlen, kind, parts, i + 1)

\* The state _append_log_line(kind, text) leaves.
AppendLogLineResult(kind, text) ==
    AppendParts([buf |-> log_buffer, now |-> now, chan |-> chan,
                 evict |-> evict, enq |-> enq, dropped |-> dropped],
                subscriber_streams, log_maxlen, kind, SplitLines(text), 1)

\* _append_log_line(kind, text) as a state change.
AppendLogLine(kind, text) ==
    LET st == AppendLogLineResult(kind, text)
    IN  /\ log_buffer' = st.buf
        /\ now' = st.now
        /\ chan' = st.chan
        /\ evict' = st.evict
        /\ enq' = st.enq
        /\ dropped' = st.dropped

(***************************************************************************)
(* InMemoryStream (stream.py): its fields, anyio.Lock and anyio.Condition. *)
(***************************************************************************)
\* anyio.Lock: the task that owns it and the tasks waiting for it, in order.
FreeLock == [owner |-> "free", waiters |-> <<>>]

\* Lock.acquire by task t: acquire_nowait takes the lock when nobody owns
\* it (the task then goes through a checkpoint owning it); otherwise the
\* task joins the waiters.
LockAcquire(l, t) ==
    IF l.owner = "free" THEN [l EXCEPT !.owner = t]
    ELSE [l EXCEPT !.waiters = Append(@, t)]

\* Lock.release: the first waiter becomes the owner and is woken; without
\* waiters the lock is free.
LockRelease(l) ==
    IF l.waiters = <<>> THEN [l EXCEPT !.owner = "free"]
    ELSE [owner |-> Head(l.waiters), waiters |-> Tail(l.waiters)]

\* StreamItem(seq, timestamp, kind, text); the kind names the appending
\* task, and no operation of the stream reads timestamp or text.
StreamItem(seq, kind) == [kind |-> kind, seq |-> seq]

\* InMemoryStream.__init__(maxlen).
NewInMemoryStream(maxlen) ==
    [buffer |-> <<>>, closed |-> FALSE,
     cond |-> [lock |-> FreeLock, waiters |-> {}],
     head_seq |-> 0, lock |-> FreeLock, maxlen |-> maxlen, next_seq |-> 0]

\* A task that is not inside a call of append or close.
NoCall == [op |-> "none", pc |-> "idle", seq |-> -1]

\* A task that has not called subscribe; `yielded` keeps the seq numbers
\* the subscription yielded, in order.
NoSubscription == [from |-> -1, offset |-> -1, pc |-> "idle", pending |-> <<>>,
                   start_seq |-> <<>>, yielded |-> <<>>]

(***************************************************************************)
(* Initial state: a ProcessWrapper after model_post_init, no subscriber,   *)
(* both drain workers waiting for output.                                  *)
(***************************************************************************)
NoOp == [op |-> "none", kind |-> "none", text |-> <<>>, n |-> 0,
         include_stderr |-> TRUE, raised |-> "none", value |-> <<>>]

\* A handler slot without a request; `before` keeps what the supervisor and
\* the registry were when the request arrived.
NoRequest == [op |-> "none", pc |-> "idle", status |-> 0, child |-> 0,
              clear_logs |-> FALSE, before |-> <<>>]

InitWith(maxlen) ==
    /\ log_buffer = <<>>
    /\ log_maxlen = maxlen
    /\ now = 0
    /\ lock = "free"
    /\ subscriber_streams = <<>>
    /\ chan = [s \in Subs |-> NewStream(MaxBufferSize)]
    /\ sub_pc = [s \in Subs |-> "idle"]
    /\ sub_replay = [s \in Subs |-> <<>>]
    /\ evict = [s \in Subs |-> [created |-> 0, closed_recv |-> 0, closed_send |-> 0,
                                 raised |-> "none"]]
    /\ enq = [s \in Subs |-> <<>>]
    /\ dropped = [s \in Subs |-> {}]
    /\ snap = [s \in Subs |-> [now |-> 0, lines |-> <<>>]]
    /\ last_op = NoOp
    /\ processes_registry = [name \in Names |-> "absent"]
    /\ proc = 0
    /\ child = [c \in Children |-> [state |-> "unborn", pipe |-> [k \in Kinds |-> 0]]]
    /\ worker = [c \in Children |-> [k \in Kinds |-> "none"]]
    /\ tasks = <<>>
    /\ req = [r \in Slots |-> NoRequest]
    /\ n_req = 0
    /\ stream = NewInMemoryStream(StreamMaxlen)
    /\ producer = [p \in Producers |-> NoCall]
    /\ consumer = [c \in Consumers |-> NoSubscription]
    /\ assigned = <<>>

Init == InitWith(Cap)

(***************************************************************************)
(* Sequential specifications: one caller at a time calls _append_log_line  *)
(* (as the drain workers do inside the lock, and as the tests do) and tail *)
(* on a supervisor built by model_post_init, without subscribers.          *)
(***************************************************************************)
InitSeq == InitWith(LogBufferMaxlen)

NumParts(text) == Len(SplitLines(text))

\* A call _append_log_line(kind, text) while at most `limit` LogLines exist.
CallAppendLogLine(kind, text, limit) ==
    /\ lock = "free"
    /\ now + NumParts(text) <= limit
    /\ AppendLogLine(kind, text)
    /\ last_op' = [NoOp EXCEPT !.op = "append", !.kind = kind, !.text = text]
    /\ UNCHANGED lifevars
    /\ UNCHANGED <<log_maxlen, streamvars, lock, subscriber_streams,
                   sub_pc, sub_replay, snap>>

\* A call tail(n, include_stderr) with the lock free: acquire, body, release.
CallTail(n, include_stderr) ==
    /\ lock = "free"
    /\ LET r == tail(log_buffer, n, include_stderr)
       IN  last_op' = [NoOp EXCEPT !.op = "tail", !.n = n,
                                   !.include_stderr = include_stderr,
                                   !.raised = r.raised, !.value = r.value]
    /\ UNCHANGED lifevars
    /\ UNCHANGED <<log_buffer, log_maxlen, streamvars, now, lock,
                   subscriber_streams, chan, sub_pc, sub_replay, evict,
                   enq, dropped, snap>>

NextAppend ==
    \E kind \in Kinds, text \in Texts : CallAppendLogLine(kind, text, MaxAppendNow)

SpecAppend == InitSeq /\ [][NextAppend]_vars

NextTail ==
    \/ \E kind \in Kinds : CallAppendLogLine(kind, <<"a", "\n">>, MaxTailNow)
    \/ \E n \in -2..MaxN, include_stderr \in BOOLEAN : CallTail(n, include_stderr)

SpecTail == InitSeq /\ [][NextTail]_vars

NextCapacity ==
    CallAppendLogLine("stdout", <<"a", "\n">>, LogBufferMaxlen + MaxOverflow)

SpecCapacity == InitSeq /\ [][NextCapacity]_vars

(***************************************************************************)
(* Interleaving specification: the two drain workers, tail_stream callers  *)
(* with their consumers (the tail-stream websocket handler of main.py) and *)
(* the unsubscribe_tail_stream tasks, as tasks of one event loop.  A task  *)
(* runs from one suspension point to the next without interruption.        *)
(***************************************************************************)
\* Chunks the drain workers receive in this specification.
WorkerChunks == {<<"a", "\n">>}

Timestamps(lines) == [i \in 1..Len(lines) |-> lines[i].timestamp]

InDict(keys, s) == \E i \in 1..Len(keys) : keys[i] = s

\* self._subscriber_streams[receive_stream] = send_stream
DictSet(keys, s) == IF InDict(keys, s) THEN keys ELSE Append(keys, s)

\* self._subscriber_streams.pop(stream), the key being present
DictPop(keys, s) == SelectSeq(keys, LAMBDA k : k # s)

\* MemoryObjectReceiveStream.close: the receive end is closed, and a sender
\* waiting in send() is woken without its item having been taken.
CloseReceive(ch) == [ch EXCEPT !.recv_closed = TRUE, !.waiting_sender = <<>>]

\* A tail_stream caller waiting in send() that is woken by the close of the
\* receive stream raises BrokenResourceError out of tail_stream.  (Its other
\* wake-up, a receiver taking the item, needs a consumer, and the consumer
\* of the stream starts only when tail_stream has returned.)
AfterCloseReceive(pc) == IF pc = "blocked" THEN "raised" ELSE pc

\* _read_stdout / _read_stderr: a chunk arrives, `async with self._lock`
\* takes the free lock, _append_log_line(kind, line.decode()) runs and the
\* lock is released.  (The worker is suspended once between taking the lock
\* and the call; no task changes the buffer or takes the lock meanwhile, and
\* what the other tasks do then they can as well do before the chunk
\* arrives, so the step is taken as one.)
DrainWorker(w, text) ==
    /\ lock = "free"
    /\ now + NumParts(text) <= MaxNow
    /\ AppendLogLine(w, text)
    /\ UNCHANGED lifevars
    /\ UNCHANGED <<log_maxlen, streamvars, lock, subscriber_streams, sub_pc,
                   sub_replay, snap, last_op>>

\* tail_stream(n): the stream pair is created, tail(n) takes the free lock,
\* builds queued_lines and releases the lock, tail_stream stores the send
\* stream in _subscriber_streams and goes on to the first
\* `await send_stream.send(line)`, which starts with a checkpoint; without
\* queued lines it returns and the handler starts to iterate.  An exception
\* of tail ends tail_stream.  Subscriptions use the slots of Subs in order.
\* A replay taken before the newest LogLine was appended.
QueuedLinesStale(buf, n) == tail(SubSeq(buf, 1, Len(buf) - 1), n, TRUE)

\* `queued_lines = await self.tail(n)`, under the lock.
QueuedLines(buf, n) == tail(buf, n, TRUE)

TailStream(s, n) ==
    /\ sub_pc[s] = "idle"
    /\ IF s = 1 THEN TRUE ELSE sub_pc[s - 1] # "idle"
    /\ lock = "free"
    /\ chan' = [chan EXCEPT ![s] = NewStream(MaxBufferSize)]
    /\ LET r == QueuedLines(log_buffer, n)
       IN  IF r.raised # "none"
           THEN /\ sub_pc' = [sub_pc EXCEPT ![s] = "raised"]
                /\ UNCHANGED <<subscriber_streams, sub_replay, snap>>
           ELSE /\ subscriber_streams' = DictSet(subscriber_streams, s)
                /\ sub_replay' = [sub_replay EXCEPT ![s] = Timestamps(r.value)]
                /\ snap' = [snap EXCEPT ![s] = [now |-> now, lines |-> Timestamps(r.value)]]
                /\ sub_pc' = [sub_pc EXCEPT
                                ![s] = IF r.value = <<>> THEN "streaming" ELSE "replay"]
    /\ UNCHANGED lifevars
    /\ UNCHANGED <<log_buffer, log_maxlen, streamvars, now, lock, evict, enq, dropped, last_op>>

\* `await send_stream.send(line)` after its checkpoint: send_nowait, and on
\* WouldBlock the caller waits as a sender of the stream.  After the last
\* line tail_stream returns.
ReplaySend(s) ==
    /\ sub_pc[s] = "replay"
    /\ LET line == Head(sub_replay[s])
           r == send_nowait(chan[s], line)
       IN  IF r.raised = "none"
           THEN /\ chan' = [chan EXCEPT ![s] = r.ch]
                /\ enq' = [enq EXCEPT ![s] = Append(@, line)]
                /\ sub_replay' = [sub_replay EXCEPT ![s] = Tail(@)]
                /\ sub_pc' = [sub_pc EXCEPT
                                ![s] = IF Tail(sub_replay[s]) = <<>>
                                       THEN "streaming" ELSE "replay"]
           ELSE IF r.raised = "WouldBlock"
           THEN /\ chan' = [chan EXCEPT ![s].waiting_sender = <<line>>]
                /\ sub_pc' = [sub_pc EXCEPT ![s] = "blocked"]
                /\ UNCHANGED <<enq, sub_replay>>
           ELSE /\ sub_pc' = [sub_pc EXCEPT ![s] = "raised"]
                /\ UNCHANGED <<chan, enq, sub_replay>>
    /\ UNCHANGED lifevars
    /\ UNCHANGED <<log_buffer, log_maxlen, streamvars, now, lock,
                   subscriber_streams, evict, dropped, snap, last_op>>

\* `async for log_line in tail_stream`: receive() after its checkpoint takes
\* the oldest buffered item, which websocket.send_text sends; or it ends the
\* iteration when the send stream is closed; or it waits for an item.  On a
\* closed receive stream receive() raises ClosedResourceError.
ConsumerReceive(s) ==
    /\ sub_pc[s] = "streaming"
    /\ chan[s].receiver = "none"
    /\ IF chan[s].recv_closed
       THEN /\ sub_pc' = [sub_pc EXCEPT ![s] = "receive_raised"]
            /\ UNCHANGED chan
       ELSE IF chan[s].buffer # <<>>
       THEN /\ chan' = [chan EXCEPT ![s].buffer = Tail(@)]
            /\ UNCHANGED sub_pc
       ELSE IF chan[s].send_closed
       THEN /\ sub_pc' = [sub_pc EXCEPT ![s] = "ended"]
            /\ UNCHANGED chan
       ELSE /\ chan' = [chan EXCEPT ![s].receiver = "waiting"]
            /\ UNCHANGED sub_pc
    /\ UNCHANGED lifevars
    /\ UNCHANGED <<log_buffer, log_maxlen, streamvars, now, lock, subscriber_streams,
                   sub_replay, evict, enq, dropped, snap, last_op>>

\* receive() took an item and websocket.send_text raised
\* WebSocketDisconnect: the handler calls unsubscribe_tail_stream, which
\* closes the receive stream and suspends in the checkpoint of aclose.
ConsumerDisconnected(s) ==
    /\ sub_pc[s] = "streaming"
    /\ chan[s].receiver = "none"
    /\ ~chan[s].recv_closed
    /\ chan[s].buffer # <<>>
    /\ chan' = [chan EXCEPT ![s] = CloseReceive([@ EXCEPT !.buffer = Tail(@)])]
    /\ evict' = [evict EXCEPT ![s].closed_recv = @ + 1]
    /\ sub_pc' = [sub_pc EXCEPT ![s] = "unsubscribing"]
    /\ UNCHANGED lifevars
    /\ UNCHANGED <<log_buffer, log_maxlen, streamvars, now, lock, subscriber_streams,
                   sub_replay, enq, dropped, snap, last_op>>

\* A task created by _append_log_line starts unsubscribe_tail_stream:
\* `await stream.aclose()` closes the receive stream, then a checkpoint.
UnsubCloseRecv(s) ==
    /\ evict[s].created > 0
    /\ chan' = [chan EXCEPT ![s] = CloseReceive(@)]
    /\ sub_pc' = [sub_pc EXCEPT ![s] = AfterCloseReceive(@)]
    /\ evict' = [evict EXCEPT ![s].created = @ - 1, ![s].closed_recv = @ + 1]
    /\ UNCHANGED lifevars
    /\ UNCHANGED <<log_buffer, log_maxlen, streamvars, now, lock, subscriber_streams,
                   sub_replay, enq, dropped, snap, last_op>>

\* unsubscribe_tail_stream goes on: _subscriber_streams.get(stream); with a
\* send stream found, `await send_stream.aclose()` closes it, then a
\* checkpoint; with none the call returns.  Closing the send stream wakes a
\* receiver waiting in receive() without an item: EndOfStream ends the
\* iteration of the consumer.
UnsubGet(s) ==
    /\ evict[s].closed_recv > 0
    /\ IF InDict(subscriber_streams, s)
       THEN /\ chan' = [chan EXCEPT ![s].send_closed = TRUE, ![s].receiver = "none"]
            /\ evict' = [evict EXCEPT ![s].closed_recv = @ - 1,
                                      ![s].closed_send = @ + 1]
            /\ sub_pc' = [sub_pc EXCEPT
                            ![s] = IF chan[s].receiver = "waiting" THEN "ended" ELSE @]
       ELSE /\ evict' = [evict EXCEPT ![s].closed_recv = @ - 1]
            /\ UNCHANGED <<chan, sub_pc>>
    /\ UNCHANGED lifevars
    /\ UNCHANGED <<log_buffer, log_maxlen, streamvars, now, lock, subscriber_streams,
                   sub_replay, enq, dropped, snap, last_op>>

\* unsubscribe_tail_stream ends: _subscriber_streams.pop(stream), a KeyError
\* when another call popped the key in between.
UnsubPop(s) ==
    /\ evict[s].closed_send > 0
    /\ IF InDict(subscriber_streams, s)
       THEN /\ subscriber_streams' = DictPop(subscriber_streams, s)
            /\ evict' = [evict EXCEPT ![s].closed_send = @ - 1]
       ELSE /\ evict' = [evict EXCEPT ![s].closed_send = @ - 1,
                                      ![s].raised = "KeyError"]
            /\ UNCHANGED subscriber_streams
    /\ UNCHANGED lifevars
    /\ UNCHANGED <<log_buffer, log_maxlen, streamvars, now, lock,
                   chan, sub_pc, sub_replay, enq, dropped, snap, last_op>>

Next ==
    \/ \E w \in Workers, text \in WorkerChunks : DrainWorker(w, text)
    \/ \E s \in Subs, n \in 0..Cap : TailStream(s, n)
    \/ \E s \in Subs : ReplaySend(s)
    \/ \E s \in Subs : ConsumerReceive(s)
    \/ \E s \in Subs : ConsumerDisconnected(s)
    \/ \E s \in Subs : UnsubCloseRecv(s)
    \/ \E s \in Subs : UnsubGet(s)
    \/ \E s \in Subs : UnsubPop(s)

Spec == Init /\ [][Next]_vars

\* The event loop runs every task that is ready: a tail_stream caller after
\* the checkpoint of send, and the tasks running unsubscribe_tail_stream.
\* Nothing makes the child write, a client subscribe or a consumer take the
\* next item.
FairSpec ==
    /\ Spec
    /\ \A s \in Subs : WF_vars(ReplaySend(s))
    /\ \A s \in Subs : WF_vars(UnsubCloseRecv(s))
    /\ \A s \in Subs : WF_vars(UnsubGet(s))
    /\ \A s \in Subs : WF_vars(UnsubPop(s))

(***************************************************************************)
(* Lifecycle specifications: the registry and the endpoints create, start, *)
(* stop, restart and delete of main.py with ProcessWrapper.start, stop and *)
(* restart, the child processes and their drain workers.  A handler runs   *)
(* from one suspension point to the next without interruption; it is       *)
(* suspended in `await open_process(...)`, in `await self._proc.wait()`    *)
(* and, holding the lock, in the checkpoint of `async with self._lock`.    *)
(* A name is not used again after its deletion.                            *)
(***************************************************************************)
\* The chunk a child writes; it names the child.
ChildChars == <<"1", "2", "3", "4">>

ChunkOf(c) == <<ChildChars[c], "\n">>

\* ProcessWrapper.pid is not None
PidDefined == proc # 0

\* A returncode that counts as defined as soon as a child was spawned.
ReturncodeDefinedOnceSpawned == proc # 0

\* ProcessWrapper.returncode is not None
ReturncodeDefined == proc # 0 /\ child[proc].state = "exited"

\* `self._proc and self._proc.returncode is None` of stop
ProcRunning == proc # 0 /\ child[proc].state = "running"

LiveChildren == {c \in Children : child[c].state = "running"}

Registered(name) == processes_registry[name] = "registered"

\* What a request finds: the registry, the child slot and the workers.
Snapshot == [registry |-> processes_registry, proc |-> proc, tasks |-> tasks]

\* A request arrives at a free handler; slots are taken in order.
Receive(r) ==
    /\ req[r].pc = "idle"
    /\ IF r = 1 THEN TRUE ELSE req[r - 1].pc # "idle"
    /\ n_req < MaxRequests
    /\ n_req' = n_req + 1

\* The handler ends with a response (500 for an exception nobody handles).
Respond(r, op, status) ==
    req' = [req EXCEPT ![r] = [NoRequest EXCEPT !.op = op, !.status = status]]

\* The handler is suspended at pc.
Suspend(r, op, pc, c, clear_logs, before) ==
    req' = [req EXCEPT ![r] = [op |-> op, pc |-> pc, status |-> 0, child |-> c,
                               clear_logs |-> clear_logs, before |-> before]]

\* A cancel that stops no worker.
CancelNothing(w, ts) == w

\* task.cancel() for every task of ts: a worker that has not ended gets
\* CancelledError where it is suspended (also in the checkpoint of the lock,
\* which it then releases) and appends nothing any more.
CancelTasks(w, ts) ==
    [c \in Children |-> [k \in Kinds |->
        IF w[c][k] = "reading" /\ \E i \in 1..Len(ts) : ts[i] = <<c, k>>
        THEN "cancelled" ELSE w[c][k]]]

\* stop() from `for task in self._tasks` on, and what restart does next up
\* to its suspension: with clear_logs it takes the lock, or waits for it;
\* without, it calls start(), which waits for open_process.
StopTail(r, op, clear_logs, before) ==
    /\ worker' = CancelTasks(worker, tasks)
    /\ tasks' = <<>>
    /\ IF op = "stop"
       THEN Respond(r, op, 200) /\ UNCHANGED lock
       ELSE IF ~clear_logs
       THEN Suspend(r, op, "spawning", 0, clear_logs, before) /\ UNCHANGED lock
       ELSE IF lock = "free"
       THEN Suspend(r, op, "clearing", 0, clear_logs, before) /\ lock' = "restart"
       ELSE Suspend(r, op, "lock_wait", 0, clear_logs, before) /\ UNCHANGED lock

\* A stop that does not wait for the child it signalled.
StopHeadNoWait(r, op, kill, clear_logs, before) == StopTail(r, op, clear_logs, before)

\* stop(kill) from its start: a running child is sent the signal kill
\* selects (it exits when it exits, see ChildExit) and is awaited.
StopHead(r, op, kill, clear_logs, before) ==
    IF ProcRunning
    THEN /\ Suspend(r, op, "waiting", proc, clear_logs, before)
         /\ UNCHANGED <<worker, tasks, lock>>
    ELSE StopTail(r, op, clear_logs, before)

\* POST /procs: create_process(proc, start).
CreateProcess(r, name, start) ==
    /\ Receive(r)
    /\ processes_registry[name] # "deleted"
    /\ IF Registered(name)
       THEN Respond(r, "create", 400) /\ UNCHANGED processes_registry
       ELSE /\ processes_registry' = [processes_registry EXCEPT ![name] = "registered"]
            /\ IF start
               THEN Suspend(r, "create", "spawning", 0, FALSE, Snapshot)
               ELSE Respond(r, "create", 200)
    /\ UNCHANGED <<log_buffer, log_maxlen, streamvars, now, lock, subscriber_streams, chan,
                   sub_pc, sub_replay, evict, enq, dropped, snap, last_op,
                   proc, child, worker, tasks>>

\* POST /procs/{name}/start: start_process.
StartProcess(r, name) ==
    /\ Receive(r)
    /\ IF ~Registered(name) THEN Respond(r, "start", 404)
       ELSE IF PidDefined THEN Respond(r, "start", 400)
       ELSE Suspend(r, "start", "spawning", 0, FALSE, Snapshot)
    /\ UNCHANGED <<log_buffer, log_maxlen, streamvars, now, lock, subscriber_streams, chan,
                   sub_pc, sub_replay, evict, enq, dropped, snap, last_op,
                   processes_registry, proc, child, worker, tasks>>

\* start(): open_process returns the new child; it becomes self._proc and
\* its two drain tasks are created and added to self._tasks.
SpawnDone(r) ==
    /\ req[r].pc = "spawning"
    /\ \E c \in Children :
          /\ child[c].state = "unborn"
          /\ \A d \in Children : d < c => child[d].state # "unborn"
          /\ proc' = c
          /\ child' = [child EXCEPT ![c].state = "running"]
          /\ worker' = [worker EXCEPT ![c] = [k \in Kinds |-> "reading"]]
          /\ tasks' = tasks \o <<<<c, "stdout">>, <<c, "stderr">>>>
    /\ Respond(r, req[r].op, 200)
    /\ UNCHANGED <<log_buffer, log_maxlen, streamvars, now, lock, subscriber_streams, chan,
                   sub_pc, sub_replay, evict, enq, dropped, snap, last_op,
                   processes_registry, n_req>>

\* start(): open_process raises; the exception leaves start and the handler.
SpawnFail(r) ==
    /\ req[r].pc = "spawning"
    /\ Respond(r, req[r].op, 500)
    /\ UNCHANGED <<log_buffer, log_maxlen, streamvars, now, lock, subscriber_streams, chan,
                   sub_pc, sub_replay, evict, enq, dropped, snap, last_op,
                   processes_registry, proc, child, worker, tasks, n_req>>

\* POST /procs/{name}/stop: stop_process.
StopProcess(r, name, kill) ==
    /\ Receive(r)
    /\ IF ~Registered(name)
       THEN Respond(r, "stop", 404) /\ UNCHANGED <<worker, tasks, lock>>
       ELSE StopHead(r, "stop", kill, FALSE, Snapshot)
    /\ UNCHANGED <<log_buffer, log_maxlen, streamvars, now, subscriber_streams, chan,
                   sub_pc, sub_replay, evict, enq, dropped, snap, last_op,
                   processes_registry, proc, child>>

\* POST /procs/{name}/restart: restart_process.
RestartProcess(r, name, kill_existing, clear_logs) ==
    /\ Receive(r)
    /\ IF ~Registered(name)
       THEN Respond(r, "restart", 404) /\ UNCHANGED <<worker, tasks, lock>>
       ELSE StopHead(r, "restart", kill_existing, clear_logs, Snapshot)
    /\ UNCHANGED <<log_buffer, log_maxlen, streamvars, now, subscriber_streams, chan,
                   sub_pc, sub_replay, evict, enq, dropped, snap, last_op,
                   processes_registry, proc, child>>

\* stop(): `await self._proc.wait()` returns, the awaited child has exited.
StopWaitDone(r) ==
    /\ req[r].pc = "waiting"
    /\ child[req[r].child].state = "exited"
    /\ StopTail(r, req[r].op, req[r].clear_logs, req[r].before)
    /\ UNCHANGED <<log_buffer, log_maxlen, streamvars, now, subscriber_streams, chan,
                   sub_pc, sub_replay, evict, enq, dropped, snap, last_op,
                   processes_registry, proc, child, n_req>>

\* restart(): the lock another restart held is free, `async with` takes it.
RestartLockGranted(r) ==
    /\ req[r].pc = "lock_wait"
    /\ lock = "free"
    /\ lock' = "restart"
    /\ req' = [req EXCEPT ![r].pc = "clearing"]
    /\ UNCHANGED <<log_buffer, log_maxlen, streamvars, now, subscriber_streams, chan,
                   sub_pc, sub_replay, evict, enq, dropped, snap, last_op,
                   processes_registry, proc, child, worker, tasks, n_req>>

\* restart(): self._log_buffer.clear(), the lock is released, start() is
\* called and waits for open_process.
ClearLogs(r) ==
    /\ req[r].pc = "clearing"
    /\ log_buffer' = <<>>
    /\ lock' = "free"
    /\ req' = [req EXCEPT ![r].pc = "spawning"]
    /\ UNCHANGED <<log_maxlen, streamvars, now, subscriber_streams, chan,
                   sub_pc, sub_replay, evict, enq, dropped, snap, last_op,
                   processes_registry, proc, child, worker, tasks, n_req>>

\* DELETE /procs/{name}: delete_process.
DeleteProcess(r, name) ==
    /\ Receive(r)
    /\ IF ~Registered(name)
       THEN Respond(r, "delete", 404) /\ UNCHANGED processes_registry
       ELSE IF ~ReturncodeDefined
       THEN Respond(r, "delete", 400) /\ UNCHANGED processes_registry
       ELSE /\ processes_registry' = [processes_registry EXCEPT ![name] = "deleted"]
            /\ Respond(r, "delete", 204)
    /\ UNCHANGED <<log_buffer, log_maxlen, streamvars, now, lock, subscriber_streams, chan,
                   sub_pc, sub_replay, evict, enq, dropped, snap, last_op,
                   proc, child, worker, tasks>>

\* A running child writes to its stdout or stderr.  The unread output of a
\* stream is one chunk: the next read of its drain worker returns all of it.
ChildWrite(c, k) ==
    /\ child[c].state = "running"
    /\ child[c].pipe[k] = 0
    /\ now + child[c].pipe["stdout"] + child[c].pipe["stderr"] < MaxLifeNow
    /\ child' = [child EXCEPT ![c].pipe[k] = @ + 1]
    /\ UNCHANGED <<log_buffer, log_maxlen, streamvars, now, lock, subscriber_streams, chan,
                   sub_pc, sub_replay, evict, enq, dropped, snap, last_op,
                   processes_registry, proc, worker, tasks, req, n_req>>

\* A running child exits, by itself or on a signal.
ChildExit(c) ==
    /\ child[c].state = "running"
    /\ child' = [child EXCEPT ![c].state = "exited"]
    /\ UNCHANGED <<log_buffer, log_maxlen, streamvars, now, lock, subscriber_streams, chan,
                   sub_pc, sub_replay, evict, enq, dropped, snap, last_op,
                   processes_registry, proc, worker, tasks, req, n_req>>

\* _read_stdout / _read_stderr of the child c: the next chunk of the stream
\* is read and, under the lock, given to _append_log_line.
DrainRead(c, k) ==
    /\ worker[c][k] = "reading"
    /\ child[c].pipe[k] > 0
    /\ lock = "free"
    /\ child' = [child EXCEPT ![c].pipe[k] = @ - 1]
    /\ AppendLogLine(k, ChunkOf(c))
    /\ UNCHANGED <<log_maxlen, streamvars, lock, subscriber_streams,
                   sub_pc, sub_replay, snap, last_op,
                   processes_registry, proc, worker, tasks, req, n_req>>

\* _read_stdout / _read_stderr: the stream of an exited child is at its end,
\* `async for` ends and with it the task.
DrainEnd(c, k) ==
    /\ worker[c][k] = "reading"
    /\ child[c].pipe[k] = 0
    /\ child[c].state = "exited"
    /\ worker' = [worker EXCEPT ![c][k] = "done"]
    /\ UNCHANGED <<log_buffer, log_maxlen, streamvars, now, lock, subscriber_streams, chan,
                   sub_pc, sub_replay, evict, enq, dropped, snap, last_op,
                   processes_registry, proc, child, tasks, req, n_req>>

\* The steps of the handler in slot r, of the children and of the workers.
Requests(r) ==
    \/ \E name \in Names, start \in BOOLEAN : CreateProcess(r, name, start)
    \/ \E name \in Names : StartProcess(r, name)
    \/ \E name \in Names, kill \in BOOLEAN : StopProcess(r, name, kill)
    \/ \E name \in Names, kill_existing \in BOOLEAN, clear_logs \in BOOLEAN :
          RestartProcess(r, name, kill_existing, clear_logs)
    \/ \E name \in Names : DeleteProcess(r, name)
    \/ SpawnDone(r)
    \/ SpawnFail(r)
    \/ StopWaitDone(r)
    \/ ClearLogs(r)

ChildSteps ==
    \/ \E c \in Children, k \in Kinds : ChildWrite(c, k)
    \/ \E c \in Children : ChildExit(c)
    \/ \E c \in Children, k \in Kinds : DrainRead(c, k)
    \/ \E c \in Children, k \in Kinds : DrainEnd(c, k)

\* One request at a time.
NextLifeSeq == Requests(1) \/ ChildSteps

SpecLifeSeq == Init /\ [][NextLifeSeq]_vars

\* The event loop runs every task that is ready: a drain worker whose
\* stream has output or is at its end, and a handler whose wait is over.
\* Nothing makes a client send a request, a child write or a child exit.
FairLifeSeq ==
    /\ SpecLifeSeq
    /\ \A c \in Children, k \in Kinds : WF_vars(DrainRead(c, k))
    /\ \A c \in Children, k \in Kinds : WF_vars(DrainEnd(c, k))
    /\ WF_vars(SpawnDone(1) \/ SpawnFail(1))
    /\ WF_vars(StopWaitDone(1))
    /\ WF_vars(ClearLogs(1))

\* Requests handled concurrently.
NextLife ==
    \/ \E r \in Slots : Requests(r)
    \/ \E r \in Slots : RestartLockGranted(r)
    \/ ChildSteps

SpecLife == Init /\ [][NextLife]_vars

(***************************************************************************)
(* Properties of the lifecycle (SpecLifeSeq, SpecLife).                    *)
(***************************************************************************)
\* The slot that takes the next request.
Receiving == IF req[1].pc = "idle" THEN 1 ELSE 2

\* The step is the arrival of a request op.
Received(op) == n_req' = n_req + 1 /\ req'[Receiving].op = op

\* The step ends the handling of a request op in slot r.
Returned(r, op) ==
    /\ req'[r].op = op
    /\ req'[r].pc = "idle"
    /\ n_req' = n_req + 1 \/ req[r].pc # "idle"
    /\ n_req' = n_req + 1 => r = Receiving

\* The child of the supervisor has exited.
ChildHasExited == proc # 0 /\ child[proc].state = "exited"

\* C11: a name leaves the registry only by a delete request that finds the
\* child of its supervisor exited; a delete request for a supervisor whose
\* child is running or was never spawned is answered 400 and leaves the
\* registry as it is, one for a supervisor whose child has exited is
\* answered 204 and removes the entry; and when stop returns for a
\* supervisor that was started, its child has exited, so that a delete
\* that follows succeeds.
C11_DeleteGuard ==
    [][ /\ (\E name \in Names : processes_registry[name] = "registered"
                                /\ processes_registry'[name] # "registered")
            => Received("delete") /\ ChildHasExited
        /\ Received("delete") /\ processes_registry["p"] = "registered" =>
              IF ChildHasExited
              THEN /\ req'[Receiving].status = 204
                   /\ processes_registry'["p"] # "registered"
              ELSE /\ req'[Receiving].status = 400
                   /\ processes_registry' = processes_registry
        /\ \A r \in Slots : Returned(r, "stop") /\ req'[r].status = 200 /\ proc # 0
              => ChildHasExited'
      ]_vars

\* A delete request was answered 204 and the entry is gone.
C11_Witness ==
    /\ processes_registry["p"] = "deleted"
    /\ \E r \in Slots : req[r].op = "delete" /\ req[r].status = 204

\* C12 as claimed: whatever create, start and restart requests run
\* concurrently, a supervisor never has two live children at once.
C12_OneLiveChild == Cardinality(LiveChildren) <= 1

\* The child stop has to wait for when it returns in slot r with this step:
\* the child it was waiting for, or the child running when it was called.
StopAwaited(r) ==
    IF req[r].pc = "waiting" THEN req[r].child
    ELSE IF proc # 0 /\ child[proc].state = "running" THEN proc
    ELSE 0

\* C14: when stop returns, the child that was running when it was called
\* has exited, self._tasks is empty and none of the tasks it held is still
\* reading.
C14_StopWaits ==
    [][\A r \in Slots :
          Returned(r, "stop") /\ req'[r].status = 200 =>
              /\ StopAwaited(r) # 0 => child'[StopAwaited(r)].state = "exited"
              /\ tasks' = <<>>
              /\ \A i \in 1..Len(tasks) : worker'[tasks[i][1]][tasks[i][2]] # "reading"
      ]_vars

\* stop has returned; the child has exited and a worker of it was cancelled.
C14_Witness ==
    /\ \E r \in Slots : req[r].op = "stop" /\ req[r].pc = "idle" /\ req[r].status = 200
    /\ proc # 0
    /\ child[proc].state = "exited"
    /\ tasks = <<>>
    /\ \E k \in Kinds : worker[proc][k] = "cancelled"

\* The supervisor holds the task of the stream k of the child c.
HoldsTask(c, k) == \E i \in 1..Len(tasks) : tasks[i] = <<c, k>>

\* C16: in restart with clear_logs the buffer is empty when the clear
\* completes; when such a restart returns with success, self._proc is a
\* child this restart spawned, it is running with its two drain workers, and
\* no record in the buffer is of another child; and every record appended
\* comes, as a new newest record, from a drain worker the supervisor holds,
\* so none comes from a worker of the previous child after stop cancelled it.
C16_RestartClearsLogs ==
    [][ /\ \A r \in Slots :
              req[r].pc = "clearing" /\ req'[r].pc # "clearing" => log_buffer' = <<>>
        /\ \A r \in Slots :
              Returned(r, "restart") /\ req'[r].status = 200 /\ req[r].clear_logs =>
                  /\ proc' # 0
                  /\ child[proc'].state = "unborn"
                  /\ child'[proc'].state = "running"
                  /\ tasks' = <<<<proc', "stdout">>, <<proc', "stderr">>>>
                  /\ \A k \in Kinds : worker'[proc'][k] = "reading"
                  /\ \A i \in 1..Len(log_buffer') : log_buffer'[i].text = ChunkOf(proc')
        /\ now' > now =>
              \E c \in Children, k \in Kinds :
                  /\ worker[c][k] = "reading"
                  /\ HoldsTask(c, k)
                  /\ log_buffer' # <<>>
                  /\ Newest(log_buffer') = LogLine(k, now', ChunkOf(c))
      ]_vars

\* restart has returned and the buffer, cleared of the record of the first
\* child, holds a record of the second.
C16_Witness ==
    /\ \E r \in Slots : req[r].op = "restart" /\ req[r].pc = "idle" /\ req[r].status = 200
    /\ proc = 2
    /\ log_buffer # <<>>
    /\ \A i \in 1..Len(log_buffer) : log_buffer[i].text = ChunkOf(2)
    /\ Len(log_buffer) < now
    /\ now <= log_maxlen

(***************************************************************************)
(* Authentication (main.py): enforce_ws_auth, and enforce_http_auth which  *)
(* passes it the bearer credentials and the X-API-Key header.  "None" is   *)
(* Python's None.  jwt.decode accepts the token "good" and raises          *)
(* PyJWTError for any other.                                               *)
(***************************************************************************)
\* settings.jwt_algo and settings.api_key
JwtAlgos == {"None", "HS256"}

ApiKeys == {"None", "k1", "k2"}

\* The token and the key a request carries; the key may be empty.
JwtTokens == {"None", "good", "bad"}

RequestKeys == {"None", "", "k1", "k2"}

\* Python truth of an optional string: None and "" are false.
Truthy(x) == x # "None" /\ x # ""

\* jwt.decode(jwt_token, settings.jwt_verif_key, algorithms=[...]) raises
JwtDecodeRaises(jwt_token) == jwt_token # "good"

\* The API-key part of enforce_ws_auth: 200 when nothing is raised, else
\* the status of the HTTPException.
CheckApiKey(settings, api_key) ==
    IF Truthy(settings.api_key)
    THEN IF ~Truthy(api_key) THEN 401
         ELSE IF api_key # settings.api_key THEN 403
         ELSE 200
    ELSE 200

\* An auth check that asks for no API key once a JWT was accepted.
enforce_ws_auth_jwt_suffices(settings, jwt_token, api_key) ==
    IF Truthy(settings.jwt_algo)
    THEN IF jwt_token = "None" THEN 401
         ELSE IF JwtDecodeRaises(jwt_token) THEN 403
         ELSE 200
    ELSE CheckApiKey(settings, api_key)

enforce_ws_auth(settings, jwt_token, api_key) ==
    IF Truthy(settings.jwt_algo) /\ jwt_token = "None" THEN 401
    ELSE IF Truthy(settings.jwt_algo) /\ JwtDecodeRaises(jwt_token) THEN 403
    ELSE CheckApiKey(settings, api_key)

\* auth_header is the credentials of a bearer Authorization header, or None.
enforce_http_auth(settings, auth_header, api_key) ==
    enforce_ws_auth(settings, IF auth_header # "None" THEN auth_header ELSE "None", api_key)

\* A request to an HTTP endpoint (http) or to the websocket endpoint passes
\* its auth dependency.
CallAuth(endpoint, settings, jwt_token, api_key) ==
    /\ last_op' = [api_key |-> api_key, endpoint |-> endpoint,
                   jwt_token |-> jwt_token, op |-> "auth", settings |-> settings,
                   status |-> IF endpoint = "http"
                              THEN enforce_http_auth(settings, jwt_token, api_key)
                              ELSE enforce_ws_auth(settings, jwt_token, api_key)]
    /\ UNCHANGED <<log_buffer, log_maxlen, streamvars, now, lock,
                   subscriber_streams, chan, sub_pc, sub_replay, evict,
                   enq, dropped, snap>>
    /\ UNCHANGED lifevars

NextAuth ==
    \E endpoint \in {"http", "ws"}, jwt_algo \in JwtAlgos, key \in ApiKeys,
       jwt_token \in JwtTokens, api_key \in RequestKeys :
        CallAuth(endpoint, [api_key |-> key, jwt_algo |-> jwt_algo], jwt_token, api_key)

SpecAuth == InitSeq /\ [][NextAuth]_vars

\* C17: a request is admitted exactly when every configured check passes
\* (so always when none is configured).  With jwt_algo configured a missing
\* JWT is answered 401 and an invalid one 403; with api_key configured a
\* request that is not rejected for its JWT is answered 401 without a key
\* (none or an empty one) and 403 with a key that does not match.
C17_AuthDecision ==
    last_op.op = "auth" =>
        LET jwt_on == last_op.settings.jwt_algo # "None"
            key_on == last_op.settings.api_key # "None"
            jwt_ok == ~jwt_on \/ last_op.jwt_token = "good"
            no_key == last_op.api_key \in {"None", ""}
            key_ok == ~key_on \/ last_op.api_key = last_op.settings.api_key
        IN  /\ last_op.status = 200 <=> jwt_ok /\ key_ok
            /\ jwt_on /\ last_op.jwt_token = "None" => last_op.status = 401
            /\ jwt_on /\ last_op.jwt_token = "bad" => last_op.status = 403
            /\ key_on /\ jwt_ok /\ no_key => last_op.status = 401
            /\ key_on /\ jwt_ok /\ ~no_key /\ ~key_ok => last_op.status = 403

\* Both checks configured, a valid JWT and a wrong key: rejected 403.
C17_Witness ==
    /\ last_op.op = "auth"
    /\ last_op.settings = [api_key |-> "k1", jwt_algo |-> "HS256"]
    /\ last_op.jwt_token = "good"
    /\ last_op.api_key = "k2"
    /\ last_op.status = 403

\* C18 as claimed: output a child has written to stdout or stderr is
\* eventually read by its drain worker and appended to the buffer.
C18_NoOutputLost ==
    \A c \in Children, k \in Kinds :
        (child[c].pipe[k] > 0) ~> (child[c].pipe[k] = 0)

\* The drain workers of the supervisor: the tasks start created that have
\* neither reached the end of their stream nor been cancelled.
DrainWorkers == {t \in Children \X Kinds : worker[t[1]][t[2]] = "reading"}

\* C19 as claimed: in every state the supervisor has exactly 2 drain
\* workers while its child is running and 0 otherwise.
C19_WorkerCount ==
    Cardinality(DrainWorkers) = IF ProcRunning THEN 2 ELSE 0

\* The weaker reading that gives the workers of an exited child time to
\* drain and end: never more than 2 workers, and 2 while the child runs.
C19_TwoWhileRunning ==
    /\ Cardinality(DrainWorkers) <= 2
    /\ ProcRunning => Cardinality(DrainWorkers) = 2

\* The step is the failure of the spawn of the request in slot r: the
\* exception of open_process leaves start() and the handler.
SpawnFailed(r) ==
    /\ req[r].pc = "spawning"
    /\ req'[r].pc = "idle"
    /\ req'[r].status = 500

\* C20 as claimed: when the spawn of a request fails, the registry, the
\* child slot and the drain workers of the supervisor are what they were
\* before the request, on every path that reaches start().
C20_SpawnFailureChangesNothing ==
    [][\A r \in Slots : SpawnFailed(r) => Snapshot' = req[r].before]_vars

\* The same for the start endpoint alone.
C20_StartEndpointOnly ==
    [][\A r \in Slots : SpawnFailed(r) /\ req[r].op = "start"
                            => Snapshot' = req[r].before]_vars

(***************************************************************************)
(* Lock specification: the fan-out of one started supervisor with the      *)
(* lock of `async with self._lock` made explicit.  The lock names the task *)
(* that holds it; a task takes the free lock, is suspended once in the     *)
(* checkpoint of the acquire and runs the body when it is resumed.  The    *)
(* release at the end of the block suspends nothing, so what a task does   *)
(* right after the block runs before any other task.                       *)
(***************************************************************************)
\* The names under which the tasks hold the lock: a drain worker under its
\* kind, a tail_stream caller and an unsubscribe_tail_stream task under the
\* names below.
TailOwner(s) == IF s = 1 THEN "tail1" ELSE "tail2"

UnsubOwner(s) == IF s = 1 THEN "unsub1" ELSE "unsub2"

\* No task is between the end of a lock block and its next suspension.
Quiet == \A s \in Subs : sub_pc[s] # "insert"

\* _read_stdout / _read_stderr: a chunk has arrived and `async with
\* self._lock` takes the free lock.
LockWorkerAcquire(k) ==
    /\ Quiet
    /\ proc # 0 /\ worker[proc][k] = "reading"
    /\ lock = "free"
    /\ now < MaxLifeNow
    /\ lock' = k
    /\ worker' = [worker EXCEPT ![proc][k] = "locked"]
    /\ UNCHANGED <<log_buffer, log_maxlen, streamvars, now, subscriber_streams, chan,
                   sub_pc, sub_replay, evict, enq, dropped, snap, last_op,
                   processes_registry, proc, child, tasks, req, n_req>>

\* The body of the block: _append_log_line appends and broadcasts; the
\* block ends and the worker waits for the next chunk.
LockWorkerAppend(k) ==
    /\ Quiet
    /\ proc # 0 /\ worker[proc][k] = "locked"
    /\ AppendLogLine(k, ChunkOf(proc))
    /\ lock' = "free"
    /\ worker' = [worker EXCEPT ![proc][k] = "reading"]
    /\ UNCHANGED <<log_maxlen, streamvars, subscriber_streams, sub_pc, sub_replay, snap,
                   last_op, processes_registry, proc, child, tasks, req, n_req>>

\* The websocket handler has resolved the supervisor; tail_stream(n)
\* creates the stream pair and calls tail(n), which takes the free lock.
LockTailAcquire(s) ==
    /\ Quiet
    /\ Registered("p")
    /\ sub_pc[s] = "idle"
    /\ IF s = 1 THEN TRUE ELSE sub_pc[s - 1] # "idle"
    /\ lock = "free"
    /\ lock' = TailOwner(s)
    /\ chan' = [chan EXCEPT ![s] = NewStream(MaxBufferSize)]
    /\ sub_pc' = [sub_pc EXCEPT ![s] = "tail"]
    /\ UNCHANGED lifevars
    /\ UNCHANGED <<log_buffer, log_maxlen, streamvars, now, subscriber_streams, sub_replay,
                   evict, enq, dropped, snap, last_op>>

\* The body of tail(n): queued_lines is built, the block ends and tail
\* returns to tail_stream (an exception of tail ends tail_stream).
LockTailBody(s, n) ==
    /\ sub_pc[s] = "tail"
    /\ lock' = "free"
    /\ LET r == QueuedLines(log_buffer, n)
       IN  IF r.raised # "none"
           THEN /\ sub_pc' = [sub_pc EXCEPT ![s] = "raised"]
                /\ UNCHANGED <<sub_replay, snap>>
           ELSE /\ sub_replay' = [sub_replay EXCEPT ![s] = Timestamps(r.value)]
                /\ snap' = [snap EXCEPT ![s] = [now |-> now, lines |-> Timestamps(r.value)]]
                /\ sub_pc' = [sub_pc EXCEPT ![s] = "insert"]
    /\ UNCHANGED lifevars
    /\ UNCHANGED <<log_buffer, log_maxlen, streamvars, now, subscriber_streams, chan,
                   evict, enq, dropped, last_op>>

\* tail_stream goes on without a suspension:
\* `self._subscriber_streams[receive_stream] = send_stream`, then the first
\* `await send_stream.send(line)` up to its checkpoint, or the return.
LockTailInsert(s) ==
    /\ sub_pc[s] = "insert"
    /\ subscriber_streams' = DictSet(subscriber_streams, s)
    /\ sub_pc' = [sub_pc EXCEPT
                    ![s] = IF sub_replay[s] = <<>> THEN "streaming" ELSE "replay"]
    /\ UNCHANGED lifevars
    /\ UNCHANGED <<log_buffer, log_maxlen, streamvars, now, lock, chan, sub_replay,
                   evict, enq, dropped, snap, last_op>>

NextLock ==
    \/ Quiet /\ CreateProcess(1, "p", TRUE)
    \/ Quiet /\ SpawnDone(1)
    \/ Quiet /\ SpawnFail(1)
    \/ \E k \in Kinds : LockWorkerAcquire(k)
    \/ \E k \in Kinds : LockWorkerAppend(k)
    \/ \E s \in Subs : LockTailAcquire(s)
    \/ \E s \in Subs, n \in 0..Cap : LockTailBody(s, n)
    \/ \E s \in Subs : LockTailInsert(s)
    \/ \E s \in Subs : Quiet /\ ReplaySend(s)
    \/ \E s \in Subs : Quiet /\ ConsumerReceive(s)
    \/ \E s \in Subs : Quiet /\ ConsumerDisconnected(s)
    \/ \E s \in Subs : Quiet /\ UnsubCloseRecv(s)
    \/ \E s \in Subs : Quiet /\ UnsubGet(s)
    \/ \E s \in Subs : Quiet /\ UnsubPop(s)

SpecLock == Init /\ [][NextLock]_vars

\* The step adds subscriber s to _subscriber_streams, or removes it.
Inserted(s) == ~InDict(subscriber_streams, s) /\ InDict(subscriber_streams', s)

Removed(s) == InDict(subscriber_streams, s) /\ ~InDict(subscriber_streams', s)

\* The step is the body of tail(n) called by tail_stream for subscriber s:
\* the snapshot of the buffer for the replay.
Snapshotted(s) == sub_pc[s] = "tail" /\ sub_pc'[s] # "tail"

\* The step is an append to the buffer with its broadcast, made by worker k.
AppendedBy(k) ==
    /\ log_buffer' # log_buffer
    /\ proc # 0 /\ worker[proc][k] = "locked" /\ worker'[proc][k] = "reading"

\* The buffer is changed, broadcast to the subscribers and read for a
\* replay only by a task that holds the lock.
C22_BufferUnderLock ==
    [][/\ log_buffer' # log_buffer => \E k \in Kinds : AppendedBy(k) /\ lock = k
       /\ \A s \in Subs : Snapshotted(s) => lock = TailOwner(s)
      ]_vars

\* C22 as claimed: the buffer is changed and read for a replay, and a
\* subscriber is added to or removed from the subscriber set, only by a
\* task that holds the lock while it does so.
C22_LockDiscipline ==
    [][/\ log_buffer' # log_buffer => \E k \in Kinds : AppendedBy(k) /\ lock = k
       /\ \A s \in Subs : Snapshotted(s) => lock = TailOwner(s)
       /\ \A s \in Subs : Inserted(s) => lock = TailOwner(s)
       /\ \A s \in Subs : Removed(s) => lock = UnsubOwner(s)
      ]_vars

\* The part of C22 about the insertion alone, and about the removal alone.
C22_InsertUnderLock ==
    [][\A s \in Subs : Inserted(s) => lock = TailOwner(s)]_vars

C22_RemoveUnderLock ==
    [][\A s \in Subs : Removed(s) => lock = UnsubOwner(s)]_vars

(***************************************************************************)
(* Stream specification: the tasks of Producers call append and close on   *)
(* one InMemoryStream, the tasks of Consumers iterate subscribe(start_seq). *)
(* A task runs from one suspension point to the next without interruption: *)
(* it is suspended when it acquires a lock (in the checkpoint of an        *)
(* uncontended acquire, or waiting for the owner's release), in            *)
(* Condition.wait, and a consumer also between two items it is yielded.    *)
(***************************************************************************)
\* Everything but the stream.
procvars == <<log_buffer, log_maxlen, now, lock, subscriber_streams, chan,
              sub_pc, sub_replay, evict, enq, dropped, snap, last_op, lifevars>>

\* start_seq: <<>> for None, <<n>> for the integer n.
StartSeqs == {<<>>} \cup {<<n>> : n \in 0..(StreamMaxlen - 1)}

\* Calls of append that have not yet run their body.
AppendsInFlight ==
    Cardinality({p \in Producers : producer[p].pc = "at_lock"})

\* append(kind, text) up to `async with self._lock`.
StreamAppendCall(p) ==
    /\ producer[p].pc = "idle"
    /\ Len(assigned) + AppendsInFlight < MaxAppends
    /\ stream' = [stream EXCEPT !.lock = LockAcquire(@, p)]
    /\ producer' = [producer EXCEPT ![p] = [op |-> "append", pc |-> "at_lock", seq |-> -1]]
    /\ UNCHANGED <<consumer, assigned>>
    /\ UNCHANGED procvars

\* The head_seq append leaves, and one that keeps the old value.
HeadSeqKept(st, buffer) == st.head_seq

HeadSeqAfterAppend(st, buffer) == st.next_seq + 1 - Len(buffer)

\* The body of the lock block of append, the release, and _notify_all up
\* to `async with self._cond`.
StreamAppendBody(p) ==
    /\ producer[p].pc = "at_lock"
    /\ stream.lock.owner = p
    /\ LET seq == stream.next_seq
           buffer == DequeAppend(stream.buffer, StreamItem(seq, p), stream.maxlen)
       IN  /\ stream' = [stream EXCEPT
                           !.buffer = buffer,
                           !.next_seq = @ + 1,
                           !.head_seq = HeadSeqAfterAppend(stream, buffer),
                           !.lock = LockRelease(@),
                           !.cond.lock = LockAcquire(@, p)]
           /\ producer' = [producer EXCEPT ![p].pc = "at_cond", ![p].seq = seq]
           /\ assigned' = Append(assigned, seq)
    /\ UNCHANGED consumer
    /\ UNCHANGED procvars

\* close() up to `async with self._cond` of _notify_all.
StreamCloseCall(p) ==
    /\ producer[p].pc = "idle"
    /\ ~stream.closed
    /\ stream' = [stream EXCEPT !.closed = TRUE, !.cond.lock = LockAcquire(@, p)]
    /\ producer' = [producer EXCEPT ![p] = [op |-> "close", pc |-> "at_cond", seq |-> -1]]
    /\ UNCHANGED <<consumer, assigned>>
    /\ UNCHANGED procvars

\* _notify_all owns the lock of the condition: notify_all wakes every task
\* waiting in Condition.wait, the lock is released, append or close returns.
StreamNotify(p) ==
    /\ producer[p].pc = "at_cond"
    /\ stream.cond.lock.owner = p
    /\ consumer' = [c \in Consumers |->
                      IF c \in stream.cond.waiters
                      THEN [consumer[c] EXCEPT !.pc = "notified"] ELSE consumer[c]]
    /\ stream' = [stream EXCEPT !.cond.waiters = {}, !.cond.lock = LockRelease(@)]
    /\ producer' = [producer EXCEPT ![p].pc = "idle"]
    /\ UNCHANGED assigned
    /\ UNCHANGED procvars

\* subscribe(start_seq) and the first request for an item: the generator
\* starts and reaches its first `async with self._lock`.
Subscribe(c, start_seq) ==
    /\ consumer[c].pc = "idle"
    /\ stream' = [stream EXCEPT !.lock = LockAcquire(@, c)]
    /\ consumer' = [consumer EXCEPT ![c] = [NoSubscription EXCEPT
                                              !.pc = "at_init", !.start_seq = start_seq]]
    /\ UNCHANGED <<producer, assigned>>
    /\ UNCHANGED procvars

\* An initial offset that is not clamped to head_seq.
InitialOffsetUnclamped(st, start_seq) ==
    IF start_seq = <<>> THEN st.next_seq ELSE start_seq[1]

\* The initial offset: next_seq for None, else start_seq clamped to head_seq.
InitialOffset(st, start_seq) ==
    IF start_seq = <<>> THEN st.next_seq
    ELSE IF start_seq[1] < st.head_seq THEN st.head_seq
    ELSE start_seq[1]

\* The first lock block chooses the offset; the block ends and the loop
\* reaches `async with self._lock`.
SubscribeOffset(c) ==
    /\ consumer[c].pc = "at_init"
    /\ stream.lock.owner = c
    /\ consumer' = [consumer EXCEPT
                      ![c].pc = "at_loop",
                      ![c].offset = InitialOffset(stream, consumer[c].start_seq),
                      ![c].from = InitialOffset(stream, consumer[c].start_seq)]
    /\ stream' = [stream EXCEPT !.lock = LockAcquire(LockRelease(@), c)]
    /\ UNCHANGED <<producer, assigned>>
    /\ UNCHANGED procvars

\* The lock block of the loop: the snapshot, the clamp of the offset, and
\* either the first `yield item` of buf[idx:], which suspends the generator
\* inside the block; or, the stream being closed, the break; or the end of
\* the block and `async with self._cond`.
SubscribeLoop(c) ==
    /\ consumer[c].pc = "at_loop"
    /\ stream.lock.owner = c
    /\ LET head_seq == stream.head_seq
           buf == stream.buffer
           offset == IF consumer[c].offset < head_seq THEN head_seq
                     ELSE consumer[c].offset
           idx == offset - head_seq
       IN  IF idx < Len(buf)
           THEN /\ consumer' = [consumer EXCEPT
                                  ![c].pc = "yielded",
                                  ![c].offset = offset,
                                  ![c].pending = SubSeq(buf, idx + 2, Len(buf)),
                                  ![c].yielded = Append(@, buf[idx + 1].seq)]
                /\ UNCHANGED stream
           ELSE IF stream.closed
           THEN /\ consumer' = [consumer EXCEPT ![c].pc = "ended", ![c].offset = offset]
                /\ stream' = [stream EXCEPT !.lock = LockRelease(@)]
           ELSE /\ consumer' = [consumer EXCEPT ![c].pc = "at_cond", ![c].offset = offset]
                /\ stream' = [stream EXCEPT !.lock = LockRelease(@),
                                            !.cond.lock = LockAcquire(@, c)]
    /\ UNCHANGED <<producer, assigned>>
    /\ UNCHANGED procvars

\* The consumer asks for the next item: the generator resumes behind the
\* yield, `offset = item.seq + 1`, and yields the next item of the
\* snapshot; after the last one the block ends (`continue`) and the loop
\* reaches `async with self._lock` again.
SubscribeNext(c) ==
    /\ consumer[c].pc = "yielded"
    /\ LET offset == consumer[c].yielded[Len(consumer[c].yielded)] + 1
       IN  IF consumer[c].pending # <<>>
           THEN /\ consumer' = [consumer EXCEPT
                                  ![c].offset = offset,
                                  ![c].pending = Tail(@),
                                  ![c].yielded = Append(@, Head(consumer[c].pending).seq)]
                /\ UNCHANGED stream
           ELSE /\ consumer' = [consumer EXCEPT ![c].pc = "at_loop", ![c].offset = offset]
                /\ stream' = [stream EXCEPT !.lock = LockAcquire(LockRelease(@), c)]
    /\ UNCHANGED <<producer, assigned>>
    /\ UNCHANGED procvars

\* The generator owns the lock of the condition: Condition.wait adds the
\* task to the waiters and releases the lock.
SubscribeWait(c) ==
    /\ consumer[c].pc = "at_cond"
    /\ stream.cond.lock.owner = c
    /\ consumer' = [consumer EXCEPT ![c].pc = "waiting"]
    /\ stream' = [stream EXCEPT !.cond.waiters = @ \cup {c},
                                !.cond.lock = LockRelease(@)]
    /\ UNCHANGED <<producer, assigned>>
    /\ UNCHANGED procvars

\* A notified task runs again: Condition.wait acquires the lock of the
\* condition before it returns.
SubscribeNotified(c) ==
    /\ consumer[c].pc = "notified"
    /\ consumer' = [consumer EXCEPT ![c].pc = "at_wake"]
    /\ stream' = [stream EXCEPT !.cond.lock = LockAcquire(@, c)]
    /\ UNCHANGED <<producer, assigned>>
    /\ UNCHANGED procvars

\* wait returns, the block of the condition ends and the loop reaches
\* `async with self._lock`.
SubscribeWoken(c) ==
    /\ consumer[c].pc = "at_wake"
    /\ stream.cond.lock.owner = c
    /\ consumer' = [consumer EXCEPT ![c].pc = "at_loop"]
    /\ stream' = [stream EXCEPT !.cond.lock = LockRelease(@),
                                !.lock = LockAcquire(@, c)]
    /\ UNCHANGED <<producer, assigned>>
    /\ UNCHANGED procvars

NextStream ==
    \/ \E p \in Producers : StreamAppendCall(p)
    \/ \E p \in Producers : StreamAppendBody(p)
    \/ \E p \in Producers : StreamCloseCall(p)
    \/ \E p \in Producers : StreamNotify(p)
    \/ \E c \in Consumers, start_seq \in StartSeqs : Subscribe(c, start_seq)
    \/ \E c \in Consumers : SubscribeOffset(c)
    \/ \E c \in Consumers : SubscribeLoop(c)
    \/ \E c \in Consumers : SubscribeNext(c)
    \/ \E c \in Consumers : SubscribeWait(c)
    \/ \E c \in Consumers : SubscribeNotified(c)
    \/ \E c \in Consumers : SubscribeWoken(c)

SpecStream == Init /\ [][NextStream]_vars

\* The event loop runs every task that is ready: one that owns the lock it
\* asked for, and one that was notified.  The consumers keep asking for the
\* next item (`async for item in stream.subscribe(...)`).  Nothing makes a
\* task call append, close or subscribe.
FairStream ==
    /\ SpecStream
    /\ \A p \in Producers : WF_vars(StreamAppendBody(p))
    /\ \A p \in Producers : WF_vars(StreamNotify(p))
    /\ \A c \in Consumers : WF_vars(SubscribeOffset(c))
    /\ \A c \in Consumers : WF_vars(SubscribeLoop(c))
    /\ \A c \in Consumers : WF_vars(SubscribeNext(c))
    /\ \A c \in Consumers : WF_vars(SubscribeWait(c))
    /\ \A c \in Consumers : WF_vars(SubscribeNotified(c))
    /\ \A c \in Consumers : WF_vars(SubscribeWoken(c))

\* The same, but nothing makes a consumer ask for the next item.
SlowConsumers ==
    /\ SpecStream
    /\ \A p \in Producers : WF_vars(StreamAppendBody(p))
    /\ \A p \in Producers : WF_vars(StreamNotify(p))
    /\ \A c \in Consumers : WF_vars(SubscribeOffset(c))
    /\ \A c \in Consumers : WF_vars(SubscribeLoop(c))
    /\ \A c \in Consumers : WF_vars(SubscribeWait(c))
    /\ \A c \in Consumers : WF_vars(SubscribeNotified(c))
    /\ \A c \in Consumers : WF_vars(SubscribeWoken(c))

(***************************************************************************)
(* Properties of the fan-out (Spec, FairSpec).  What a subscriber receives *)
(* is what entered its stream, in that order (the stream is first in,      *)
(* first out): enq[s].  Timestamps number the LogLines in append order.    *)
(***************************************************************************)
IsSorted(seq) == \A i \in 1..(Len(seq) - 1) : seq[i] < seq[i + 1]

NoDuplicates(seq) == \A i, j \in 1..Len(seq) : seq[i] = seq[j] => i = j

InSeq(seq, x) == \E i \in 1..Len(seq) : seq[i] = x

\* s is in the subscriber set with both ends of its stream open.
Subscribed(s) ==
    /\ InDict(subscriber_streams, s)
    /\ ~chan[s].send_closed
    /\ ~chan[s].recv_closed

\* C1 as claimed: every subscriber receives LogLines in the order in which
\* they were appended to the buffer, the replay before everything appended
\* after the subscription.
C1_ReceivedInAppendOrder == \A s \in Subs : IsSorted(enq[s])

\* C2: the boundary between replay and live LogLines is exact.  Nothing
\* enters the stream of a subscriber twice, the replay still to be sent
\* included; what has entered is a LogLine of the replay snapshot or one
\* appended after it; a replay ends with the LogLine that was newest when
\* the subscriber joined the set; and while the subscriber is in the set with its stream
\* open, every LogLine appended after the snapshot has entered its stream or
\* was refused because the stream was full.
C2_ExactBoundary ==
    \A s \in Subs :
        /\ NoDuplicates(enq[s] \o sub_replay[s])
        /\ \A i \in 1..Len(enq[s]) :
              InSeq(snap[s].lines, enq[s][i]) \/ enq[s][i] > snap[s].now
        /\ snap[s].lines # <<>> => snap[s].lines[Len(snap[s].lines)] = snap[s].now
        /\ Subscribed(s) =>
              \A ts \in (snap[s].now + 1)..now : InSeq(enq[s], ts) \/ ts \in dropped[s]

\* The stream of a subscriber took LogLines of its replay and a LogLine
\* appended after it.
C2_Witness ==
    \E s \in Subs :
        /\ snap[s].lines # <<>>
        /\ \E i \in 1..Len(enq[s]) : enq[s][i] > snap[s].now
        /\ \E i \in 1..Len(enq[s]) : enq[s][i] <= snap[s].now

\* The items the stream of s can take now: its free buffer slots, and one
\* more when its consumer waits in receive().
Room(s) ==
    chan[s].max_buffer_size - Len(chan[s].buffer)
        + (IF chan[s].receiver = "waiting" THEN 1 ELSE 0)

\* C3: a subscriber that does not drain its stream blocks no append.  Every
\* step that appends LogLines leaves the last of them newest in the buffer,
\* and hands every subscriber that is in the set with its stream open the
\* new LogLines, in order, as far as its own stream has room, whatever the
\* state of the other streams; and a subscriber whose stream refused a
\* LogLine for being full is eventually removed from the subscriber set.
C3_SlowSubscriber ==
    /\ [][now' > now =>
            /\ Newest(log_buffer').timestamp = now'
            /\ \A s \in Subs :
                  Subscribed(s) =>
                      enq'[s] = enq[s] \o [i \in 1..Min(now' - now, Room(s)) |-> now + i]
         ]_vars
    /\ \A s \in Subs :
          (dropped[s] # {}) ~> ~InDict(subscriber_streams, s)

\* The first subscriber overflowed and was removed, and the LogLine it
\* missed reached the second one.
C3_Witness ==
    /\ ~InDict(subscriber_streams, 1)
    /\ \E ts \in dropped[1] : InSeq(enq[2], ts)

C4_ReplayNeverWaits == \A s \in Subs : sub_pc[s] # "blocked"

\* C13 as claimed: the iteration of a subscriber over its stream never ends
\* with an error; after its removal from the subscriber set it ends with
\* end-of-stream.
C13_IteratorEndsCleanly == \A s \in Subs : sub_pc[s] # "receive_raised"

(***************************************************************************)
(* Properties of the InMemoryStream (SpecStream, FairStream).              *)
(***************************************************************************)
\* C23: the seq numbers append assigned are 0, 1, 2, ... in the order of
\* the appends, next_seq is the number of appends made, the retained items
\* carry consecutive seq numbers from head_seq = next_seq - len(buffer) on,
\* so head_seq is the seq of the oldest retained item, and the buffer holds
\* at most maxlen items.
C23_SeqNumbers ==
    /\ \A i \in 1..Len(assigned) : assigned[i] = i - 1
    /\ stream.next_seq = Len(assigned)
    /\ stream.head_seq = stream.next_seq - Len(stream.buffer)
    /\ \A i \in 1..Len(stream.buffer) : stream.buffer[i].seq = stream.head_seq + i - 1
    /\ Len(stream.buffer) <= stream.maxlen
    /\ \A p \in Producers :
          producer[p].op = "append" /\ producer[p].pc # "at_lock"
              => producer[p].seq \in 0..(stream.next_seq - 1)

\* One append more than the stream retains: the oldest item is gone and
\* head_seq has advanced.
C23_Witness ==
    /\ Len(assigned) = StreamMaxlen + 1
    /\ stream.head_seq = 1
    /\ Len(stream.buffer) = StreamMaxlen
    /\ stream.buffer[1].seq = 1

Max(a, b) == IF a > b THEN a ELSE b

\* The subscription of c has chosen its offset and has not ended.
Active(c) == consumer[c].pc \notin {"idle", "at_init", "ended"}

\* The step chooses the initial offset of the subscription of c.
OffsetChosen(c) == consumer[c].pc = "at_init" /\ consumer'[c].pc = "at_loop"

\* The step yields an item to c.
Yields(c) == Len(consumer'[c].yielded) = Len(consumer[c].yielded) + 1

\* The seq the subscription of c is to yield next, eviction apart.
Expected(c) ==
    IF consumer[c].yielded = <<>> THEN consumer[c].from
    ELSE consumer[c].yielded[Len(consumer[c].yielded)] + 1

\* The order of what a subscription yields: the initial offset is next_seq
\* for None and max(start_seq, head_seq) otherwise; every yield is of the
\* item behind the one before (the first one of the item at the initial
\* offset), or of the oldest retained item when that one was evicted, and
\* its seq is greater than every seq yielded before.
YieldsInOrder ==
    \A c \in Consumers :
        /\ OffsetChosen(c) =>
              consumer'[c].from = IF consumer[c].start_seq = <<>> THEN stream.next_seq
                                  ELSE Max(consumer[c].start_seq[1], stream.head_seq)
        /\ Yields(c) =>
              LET item == consumer'[c].yielded[Len(consumer'[c].yielded)]
              IN  /\ item = Max(Expected(c), stream.head_seq)
                  /\ \A i \in 1..Len(consumer[c].yielded) : consumer[c].yielded[i] < item

C25_NoLockWhileYielded ==
    \A c \in Consumers : consumer[c].pc = "yielded" => stream.lock.owner # c

\* The same as the claim puts it for the producers: a call of append that
\* waits for the lock gets it and runs its body, however slow the consumers
\* are (checked under SlowConsumers).
C25_AppendCompletes ==
    \A p \in Producers :
        (producer[p].pc = "at_lock") ~> (producer[p].pc # "at_lock")

(***************************************************************************)
(* Properties of _append_log_line (SpecAppend).                            *)
(***************************************************************************)
EndsWithNewline(t) == t # <<>> /\ t[Len(t)] = "\n"

\* The step is a call _append_log_line(kind, text) that created LogLines.
AppendStep == now' > now /\ last_op'.op = "append"

\* The call finds a newest LogLine of its own kind without a trailing newline.
ContinuesNewest ==
    /\ AppendStep
    /\ log_buffer # <<>>
    /\ Newest(log_buffer).kind = last_op'.kind
    /\ ~EndsWithNewline(Newest(log_buffer).text)

\* The LogLines a step added behind the ones that were there.
Added == SubSeq(log_buffer', Len(log_buffer) + 1, Len(log_buffer'))

RECURSIVE ConcatTexts(_)
ConcatTexts(lines) ==
    IF lines = <<>> THEN <<>> ELSE Head(lines).text \o ConcatTexts(Tail(lines))

\* t is one line: not empty, and a line boundary only as its terminator
\* ("\n", "\r" or "\r\n").
IsOneLine(t) ==
    /\ t # <<>>
    /\ \A j \in 1..(Len(t) - 1) :
          t[j] \in LineBreaks => (j = Len(t) - 1 /\ t[j] = "\r" /\ t[Len(t)] = "\n")

\* C5 as claimed: a chunk that continues the newest LogLine (same kind, no
\* trailing newline) has its first piece merged into that LogLine: its text
\* grows by the piece, its timestamp advances, and one LogLine fewer than
\* the chunk has pieces is added.
C5_MergeAsClaimed ==
    [][ContinuesNewest =>
          /\ Len(log_buffer') = Len(log_buffer) + NumParts(last_op'.text) - 1
          /\ log_buffer'[Len(log_buffer)].text
                = Newest(log_buffer).text \o SplitLines(last_op'.text)[1]
          /\ log_buffer'[Len(log_buffer)].timestamp > Newest(log_buffer).timestamp
       ]_vars

\* C5 amended: a chunk that continues the newest LogLine (same kind, no
\* trailing newline) is not merged into it: that LogLine keeps its text and
\* timestamp, and the first piece of the chunk becomes a new LogLine right
\* behind it, so "Partial " then "rest\n" leaves two LogLines.
C5_NoMerge ==
    [][ContinuesNewest =>
          /\ Len(log_buffer') = Len(log_buffer) + NumParts(last_op'.text)
          /\ log_buffer'[Len(log_buffer)] = Newest(log_buffer)
          /\ log_buffer'[Len(log_buffer) + 1].kind = last_op'.kind
          /\ log_buffer'[Len(log_buffer) + 1].text = SplitLines(last_op'.text)[1]
       ]_vars

\* "a" then "a\n" on the same stream, nothing between: two LogLines.
C5_Witness ==
    /\ last_op.op = "append" /\ last_op.text = <<"a", "\n">>
    /\ Len(log_buffer) = 2
    /\ log_buffer[1].kind = log_buffer[2].kind
    /\ log_buffer[1].text = <<"a">>
    /\ log_buffer[2].text = <<"a", "\n">>

\* C6: a call _append_log_line(kind, text) leaves the LogLines already in
\* the buffer as they were and adds behind them one LogLine of that kind
\* per line of text, in order: the added texts are lines with their
\* terminators kept, every one but the last is terminated, no "\r\n" is
\* cut in two, and together they are text.
C6_AppendsPieces ==
    [][AppendStep =>
          /\ Len(log_buffer') >= Len(log_buffer)
          /\ SubSeq(log_buffer', 1, Len(log_buffer)) = log_buffer
          /\ ConcatTexts(Added) = last_op'.text
          /\ \A i \in 1..Len(Added) :
                /\ Added[i].kind = last_op'.kind
                /\ IsOneLine(Added[i].text)
                /\ i < Len(Added) =>
                      /\ Added[i].text[Len(Added[i].text)] \in LineBreaks
                      /\ ~(Added[i].text[Len(Added[i].text)] = "\r"
                           /\ Added[i + 1].text[1] = "\n")
       ]_vars

\* The buffer of test_write_process_input: "Partial Line: ", then
\* "Continuation\n", then "Another Line\n", three LogLines.
C6_Witness ==
    /\ last_op.op = "append"
    /\ Len(log_buffer) = 3
    /\ \A i \in 1..3 : log_buffer[i].kind = "stdout"
    /\ log_buffer[1].text = <<"a">>
    /\ log_buffer[2].text = <<"a", "\n">>
    /\ log_buffer[3].text = <<"a", "\n">>

\* The text ends with a line boundary of str.splitlines.
Terminated(t) == t # <<>> /\ t[Len(t)] \in LineBreaks

\* LogLines i and i + 1 of buf have the same kind and the earlier one has
\* no line terminator.
Unjoined(buf, i) ==
    /\ buf[i].kind = buf[i + 1].kind
    /\ ~Terminated(buf[i].text)

\* C21 as claimed: the buffer never holds two adjacent LogLines of the
\* same kind of which the earlier one does not end with a newline.
C21_NoUnjoinedPair ==
    \A i \in 1..(Len(log_buffer) - 1) : ~Unjoined(log_buffer, i)

\* C21 amended: the buffer can hold two adjacent LogLines of the same kind
\* of which the earlier one has no terminator, and it does exactly where
\* two chunks meet: a call that finds a newest LogLine of its own kind
\* without a terminator leaves its first piece right behind it as a
\* LogLine of its own, and among the LogLines one call adds no such pair
\* exists.
C21_UnjoinedWhereChunksMeet ==
    [][AppendStep =>
          /\ ( /\ log_buffer # <<>>
               /\ Newest(log_buffer).kind = last_op'.kind
               /\ ~Terminated(Newest(log_buffer).text) )
             => /\ Len(log_buffer') > Len(log_buffer)
                /\ Unjoined(log_buffer', Len(log_buffer))
          /\ \A i \in (Len(log_buffer) + 1)..(Len(log_buffer') - 1) :
                ~Unjoined(log_buffer', i)
       ]_vars

\* Two chunks of stderr without a newline, one after the other: the buffer
\* holds them as two adjacent LogLines.
C21_Witness ==
    /\ last_op.op = "append" /\ last_op.kind = "stderr"
    /\ last_op.text = <<"a">>
    /\ Len(log_buffer) >= 2
    /\ Unjoined(log_buffer, Len(log_buffer) - 1)

(***************************************************************************)
(* Properties of tail (SpecTail).                                          *)
(***************************************************************************)
\* The LogLines the filter of tail accepts, in buffer order.
Accepted(buf, include_stderr) ==
    SelectSeq(buf, LAMBDA l : include_stderr \/ l.kind # "stderr")

LastN(seq, k) == SubSeq(seq, Len(seq) - k + 1, Len(seq))

TailReturned == last_op.op = "tail" /\ last_op.raised = "none"

\* C7 as claimed: tail(n, include_stderr) with n >= 0 returns min(n, A)
\* LogLines, A the number of accepted LogLines in the buffer, and no
\* placeholder.
C7_TailCount ==
    (last_op.op = "tail" /\ last_op.n >= 0) =>
        /\ last_op.raised = "none"
        /\ Len(last_op.value)
              = Min(last_op.n, Len(Accepted(log_buffer, last_op.include_stderr)))
        /\ \A i \in 1..Len(last_op.value) : last_op.value[i] # NoneLine

\* C8 as claimed: tail(n, include_stderr) with n >= 0 returns the last
\* min(n, A) accepted LogLines in buffer order.
C8_TailIsSuffix ==
    (last_op.op = "tail" /\ last_op.n >= 0) =>
        /\ last_op.raised = "none"
        /\ LET acc == Accepted(log_buffer, last_op.include_stderr)
           IN  last_op.value = LastN(acc, Min(last_op.n, Len(acc)))

\* C9 as claimed: tail with a negative n ends in an error, never in a list.
C9_NegativeRejected ==
    (last_op.op = "tail" /\ last_op.n < 0) => last_op.raised # "none"

(***************************************************************************)
(* Capacity of the log buffer (SpecCapacity).                              *)
(***************************************************************************)
\* C10: the buffer never holds more than 1000 LogLines, and it holds the
\* newest min(appended, 1000) of them in the order they were appended: the
\* append to a full buffer dropped the oldest, so after 1001 appends the
\* oldest one left is the 2nd appended.
C10_Capacity ==
    /\ Len(log_buffer) <= LogBufferMaxlen
    /\ Len(log_buffer) = Min(now, LogBufferMaxlen)
    /\ \A i \in 1..Len(log_buffer) :
          log_buffer[i].timestamp = now - Len(log_buffer) + i

C10_Witness ==
    /\ now = LogBufferMaxlen + 1
    /\ Len(log_buffer) = LogBufferMaxlen
    /\ log_buffer[1].timestamp = 2

====
